---- MODULE Spec2Model ----
(***************************************************************************)
(* Model of scripts/audit.py: the audit script of the resource table.      *)
(*                                                                         *)
(* Python values are modelled as tagged records: None, str (a tuple of     *)
(* one-character strings), int and datetime.  A call either returns a      *)
(* value or raises an exception; an exception nobody catches ends the      *)
(* process with a traceback and exit code 1.                               *)
(***************************************************************************)
EXTENDS Integers, Sequences, FiniteSets, TLC

\* ------------------------------------------------------------------------
\* Bounds of the model
\* ------------------------------------------------------------------------
\* longest table read from the CSV file / handed to an audit function
MaxRecords == 2

\* longest table of the specification that counts rows by Active and License
MaxCounted == 3

\* ------------------------------------------------------------------------
\* Python values and call outcomes
\* ------------------------------------------------------------------------
None == [type |-> "NoneType"]

PyStr(s) == [type |-> "str", val |-> s]

PyInt(n) == [type |-> "int", val |-> n]

IsNone(v) == v.type = "NoneType"

IsStr(v) == v.type = "str"

\* Python truthiness of None, str and int values
Truthy(v) ==
    CASE v.type = "NoneType" -> FALSE
      [] v.type = "str" -> Len(v.val) > 0
      [] v.type = "int" -> v.val # 0
      [] OTHER -> TRUE

Ok(v) == [raised |-> FALSE, val |-> v]

Raise(e) == [raised |-> TRUE, exc |-> e]

\* dict.get(key, default): a row is a function from the header's field
\* names to values; csv.DictReader stores None for the fields a short row
\* does not reach
Get(r, k, default) == IF k \in DOMAIN r THEN r[k] ELSE default

EmptyStr == PyStr(<<>>)

\* ------------------------------------------------------------------------
\* str.lower(), str.upper(), str.strip() on the modelled alphabet
\* ------------------------------------------------------------------------
UpperLetters ==
    <<"A", "B", "C", "D", "E", "F", "G", "H", "I", "J", "K", "L", "M",
      "N", "O", "P", "Q", "R", "S", "T", "U", "V", "W", "X", "Y", "Z">>

LowerLetters ==
    <<"a", "b", "c", "d", "e", "f", "g", "h", "i", "j", "k", "l", "m",
      "n", "o", "p", "q", "r", "s", "t", "u", "v", "w", "x", "y", "z">>

LowerChar(c) ==
    IF \E i \in 1..26 : UpperLetters[i] = c
    THEN LowerLetters[CHOOSE i \in 1..26 : UpperLetters[i] = c]
    ELSE c

UpperChar(c) ==
    IF \E i \in 1..26 : LowerLetters[i] = c
    THEN UpperLetters[CHOOSE i \in 1..26 : LowerLetters[i] = c]
    ELSE c

\* v.lower() / v.upper(): AttributeError when v is None
lower(v) ==
    IF IsStr(v)
    THEN Ok(PyStr([i \in 1..Len(v.val) |-> LowerChar(v.val[i])]))
    ELSE Raise("AttributeError")

upper(v) ==
    IF IsStr(v)
    THEN Ok(PyStr([i \in 1..Len(v.val) |-> UpperChar(v.val[i])]))
    ELSE Raise("AttributeError")

Whitespace == {" ", "\t", "\n", "\r"}

\* s.strip() == "" for a str s
StripIsEmpty(s) == \A i \in 1..Len(s) : s[i] \in Whitespace

\* ------------------------------------------------------------------------
\* datetime
\* ------------------------------------------------------------------------
MINYEAR == 1

MAXYEAR == 9999

IsLeap(y) == (y % 4 = 0) /\ ((y % 100 # 0) \/ (y % 400 = 0))

DaysInMonth(y, m) ==
    IF m = 2 THEN (IF IsLeap(y) THEN 29 ELSE 28)
    ELSE IF m \in {4, 6, 9, 11} THEN 30 ELSE 31

RECURSIVE DaysBeforeMonth(_, _)
DaysBeforeMonth(y, m) ==
    IF m <= 1 THEN 0 ELSE DaysBeforeMonth(y, m - 1) + DaysInMonth(y, m - 1)

DaysBeforeYear(y) ==
    ((y - 1) * 365) + ((y - 1) \div 4) - ((y - 1) \div 100) + ((y - 1) \div 400)

DateTime(y, mo, d, h, mi, s, us) ==
    [type |-> "datetime", year |-> y, month |-> mo, day |-> d,
     hour |-> h, minute |-> mi, second |-> s, microsecond |-> us]

\* date.toordinal(): day 1 is 0001-01-01
Ordinal(dt) == DaysBeforeYear(dt.year) + DaysBeforeMonth(dt.year, dt.month) + dt.day

MaxOrdinal == 3652059

SecondOfDay(dt) == (dt.hour * 3600) + (dt.minute * 60) + dt.second

\* a < b on the time of day, microseconds included
TimeOfDayLess(a, b) ==
    \/ SecondOfDay(a) < SecondOfDay(b)
    \/ SecondOfDay(a) = SecondOfDay(b) /\ a.microsecond < b.microsecond

\* (a - b).days: timedelta normalises to 0 <= seconds < 86400, so the day
\* count is the floor of the difference
DaysBetween(a, b) ==
    (Ordinal(a) - Ordinal(b)) - (IF TimeOfDayLess(a, b) THEN 1 ELSE 0)

\* a >= b on datetimes
DateTimeGE(a, b) ==
    \/ Ordinal(a) > Ordinal(b)
    \/ Ordinal(a) = Ordinal(b) /\ ~TimeOfDayLess(a, b)

MaxTimedeltaDays == 999999999

\* now - timedelta(days=n), as the ordinal and the time of day it keeps;
\* OverflowError when n or the resulting date is out of range
MinusDays(dt, n) ==
    IF n > MaxTimedeltaDays \/ n < -MaxTimedeltaDays
    THEN Raise("OverflowError")
    ELSE IF Ordinal(dt) - n < 1 \/ Ordinal(dt) - n > MaxOrdinal
    THEN Raise("OverflowError")
    ELSE Ok([ordinal |-> Ordinal(dt) - n, time |-> dt])

\* parsed >= cutoff for a cutoff returned by MinusDays
AtOrAfterCutoff(parsed, cutoff) ==
    \/ Ordinal(parsed) > cutoff.ordinal
    \/ Ordinal(parsed) = cutoff.ordinal /\ ~TimeOfDayLess(parsed, cutoff.time)

\* ------------------------------------------------------------------------
\* datetime.strptime(s, "%Y-%m-%d:%H-%M-%S")
\* ------------------------------------------------------------------------
DigitChars == <<"0", "1", "2", "3", "4", "5", "6", "7", "8", "9">>

IsDigit(c) == \E i \in 1..10 : DigitChars[i] = c

DigitVal(c) == (CHOOSE i \in 1..10 : DigitChars[i] = c) - 1

\* the character at position p, "" past the end
At(s, p) == IF p >= 1 /\ p <= Len(s) THEN s[p] ELSE ""

D09 == {"0", "1", "2", "3", "4", "5", "6", "7", "8", "9"}

D19 == {"1", "2", "3", "4", "5", "6", "7", "8", "9"}

D05 == {"0", "1", "2", "3", "4", "5"}

\* the directives of the format and the literal that follows each
Directives == <<"Y", "m", "d", "H", "M", "S">>

Literals == <<"-", "-", ":", "-", "-", "">>

\* the regular expression of each directive: its alternatives in order,
\* each a sequence of character classes
Regex ==
    [Y |-> << <<D09, D09, D09, D09>> >>,
     m |-> << <<{"1"}, {"0", "1", "2"}>>, <<{"0"}, D19>>, <<D19>> >>,
     d |-> << <<{"3"}, {"0", "1"}>>, <<{"1", "2"}, D09>>, <<{"0"}, D19>>,
              <<D19>>, <<{" "}, D19>> >>,
     H |-> << <<{"2"}, {"0", "1", "2", "3"}>>, <<{"0", "1"}, D09>>, <<D09>> >>,
     M |-> << <<D05, D09>>, <<D09>> >>,
     S |-> << <<{"6"}, {"0", "1"}>>, <<D05, D09>>, <<D09>> >>]

AltMatches(alt, s, p) == \A i \in 1..Len(alt) : At(s, p + i - 1) \in alt[i]

\* the number of characters the first matching alternative takes at p,
\* 0 when none matches
FirstMatch(alts, s, p) ==
    IF \E a \in 1..Len(alts) : AltMatches(alts[a], s, p)
    THEN Len(alts[CHOOSE a \in 1..Len(alts) :
                    /\ AltMatches(alts[a], s, p)
                    /\ \A b \in 1..(a - 1) : ~AltMatches(alts[b], s, p)])
    ELSE 0

\* int() of the n characters at p (int() skips the blank of " 5")
RECURSIVE NumAt(_, _, _)
NumAt(s, p, n) ==
    IF n = 0 THEN 0
    ELSE (NumAt(s, p, n - 1) * 10)
         + (IF IsDigit(At(s, p + n - 1)) THEN DigitVal(At(s, p + n - 1)) ELSE 0)

\* x in front of a match, no match staying no match
Found(x, rest) == IF rest = <<>> THEN <<>> ELSE <<x>> \o rest

\* the regex match from directive k at position p: the numbers found,
\* followed by the position after the match, or <<>> when s does not match
RECURSIVE MatchFrom(_, _, _)
\* directive k took n characters at p: its literal and the other directives
MatchRest(k, s, p, n) ==
    IF n = 0 THEN <<>>
    ELSE IF Literals[k] = "" THEN Found(NumAt(s, p, n), MatchFrom(k + 1, s, p + n))
    ELSE IF At(s, p + n) # Literals[k] THEN <<>>
    ELSE Found(NumAt(s, p, n), MatchFrom(k + 1, s, p + n + 1))

MatchFrom(k, s, p) ==
    IF k > Len(Directives) THEN <<p>>
    ELSE MatchRest(k, s, p, FirstMatch(Regex[Directives[k]], s, p))

\* the checks that follow the regex match, each a ValueError
CheckFound(found, s) ==
    IF found = <<>> THEN Raise("ValueError")            \* does not match format
    ELSE IF found[7] - 1 # Len(s) THEN Raise("ValueError") \* unconverted data remains
    ELSE IF found[1] < MINYEAR THEN Raise("ValueError") \* year 0 is out of range
    ELSE IF found[3] > DaysInMonth(found[1], found[2]) THEN Raise("ValueError")
    ELSE IF found[6] > 59 THEN Raise("ValueError")      \* second must be in 0..59
    ELSE Ok(DateTime(found[1], found[2], found[3], found[4], found[5], found[6], 0))

Strptime(s) == CheckFound(MatchFrom(1, s, 1), s)

\* except ValueError: return None
ExceptValueError(r) == IF r.raised /\ r.exc = "ValueError" THEN Ok(None) ELSE r

\* parse_date without its try/except
parse_date_uncaught(date_str) ==
    IF ~Truthy(date_str) \/ StripIsEmpty(date_str.val)
    THEN Ok(None)
    ELSE Strptime(date_str.val)

parse_date(date_str) ==
    IF ~Truthy(date_str) \/ StripIsEmpty(date_str.val)
    THEN Ok(None)
    ELSE ExceptValueError(Strptime(date_str.val))

\* ------------------------------------------------------------------------
\* collections.Counter and most_common
\* ------------------------------------------------------------------------
\* last added to the distinct values front, unless it is among them
AddDistinct(front, last) ==
    IF \E i \in 1..Len(front) : front[i] = last THEN front ELSE Append(front, last)

\* the distinct values of a sequence in first-seen order (dict insertion order)
RECURSIVE Distinct(_)
Distinct(seq) ==
    IF seq = <<>> THEN <<>>
    ELSE AddDistinct(Distinct(SubSeq(seq, 1, Len(seq) - 1)), seq[Len(seq)])

CountOf(seq, v) == Cardinality({i \in 1..Len(seq) : seq[i] = v})

\* stable insertion of a <<value, count>> pair into a list sorted by
\* decreasing count: ties keep the insertion order
RECURSIVE InsertByCount(_, _)
InsertByCount(sorted, pair) ==
    IF sorted = <<>> THEN <<pair>>
    ELSE IF sorted[Len(sorted)][2] >= pair[2]
    THEN Append(sorted, pair)
    ELSE Append(InsertByCount(SubSeq(sorted, 1, Len(sorted) - 1), pair),
                sorted[Len(sorted)])

RECURSIVE SortByCount(_)
SortByCount(pairs) ==
    IF pairs = <<>> THEN <<>>
    ELSE InsertByCount(SortByCount(SubSeq(pairs, 1, Len(pairs) - 1)),
                       pairs[Len(pairs)])

\* the <<value, count>> pairs of the distinct values keys
CountPairs(keys, values) ==
    [i \in 1..Len(keys) |-> <<keys[i], CountOf(values, keys[i])>>]

\* Counter(values).most_common(): <<value, count>> pairs, most frequent first
most_common(values) == SortByCount(CountPairs(Distinct(values), values))

Take(seq, n) == SubSeq(seq, 1, IF Len(seq) < n THEN Len(seq) ELSE n)

TopAuthors == 10

\* ------------------------------------------------------------------------
\* The strings the code compares with
\* ------------------------------------------------------------------------
TRUE_STR == PyStr(<<"T", "R", "U", "E">>)

NOT_FOUND == PyStr(<<"N", "O", "T", "_", "F", "O", "U", "N", "D">>)

Unknown == PyStr(<<"U", "n", "k", "n", "o", "w", "n">>)

\* the outcome u of .upper() compared with "TRUE"
IsTRUE(u) == IF u.raised THEN u ELSE Ok(u.val = TRUE_STR)

\* UpperIsTrue written as: the flag is not "FALSE"
UpperIsTrue_NotFalse(r, field) ==
    IF upper(Get(r, field, EmptyStr)).raised
    THEN Raise("AttributeError")
    ELSE Ok(upper(Get(r, field, EmptyStr)).val # PyStr(<<"F", "A", "L", "S", "E">>))

\* r.get(field, "").upper() == "TRUE", with the AttributeError of None
UpperIsTrue(r, field) == IsTRUE(upper(Get(r, field, EmptyStr)))

\* HasNoLicense without the NOT_FOUND alternative
HasNoLicense_EmptyOnly(r) == ~Truthy(Get(r, "License", None))

\* not r.get("License") or r.get("License") == "NOT_FOUND"
HasNoLicense(r) ==
    \/ ~Truthy(Get(r, "License", None))
    \/ Get(r, "License", None) = NOT_FOUND

\* ------------------------------------------------------------------------
\* high_level_audit
\* ------------------------------------------------------------------------
RecentlyAddedDays == 30

RecentlyCheckedDays == 7

OutdatedDays == 30

\* date_added and (now - date_added).days <= 30
IsRecentlyAdded(date_added, nowv) ==
    ~IsNone(date_added) /\ DaysBetween(nowv, date_added) <= RecentlyAddedDays

\* the if/elif/elif of the Last Checked buckets
CheckBucket(last_checked, nowv) ==
    IF IsNone(last_checked) THEN "never_checked"
    ELSE IF DaysBetween(nowv, last_checked) <= RecentlyCheckedDays THEN "recently_checked"
    ELSE IF DaysBetween(nowv, last_checked) > OutdatedDays THEN "outdated"
    ELSE "none"

\* one turn of the loop over the resources: the lists the resource is
\* appended to, or the exception of one of the parse_date calls
Classify(date_added, last_checked, nowv) ==
    IF date_added.raised THEN date_added
    ELSE IF last_checked.raised THEN last_checked
    ELSE Ok([recently_added |-> IsRecentlyAdded(date_added.val, nowv),
             bucket |-> CheckBucket(last_checked.val, nowv)])

DateAnalysis(resource, nowv) ==
    Classify(parse_date(Get(resource, "Date Added", EmptyStr)),
             parse_date(Get(resource, "Last Checked", EmptyStr)), nowv)

\* the lengths of the four lists after the loop
ListLengths(turns) ==
    IF \E i \in 1..Len(turns) : turns[i].raised
    THEN turns[CHOOSE i \in 1..Len(turns) :
                    turns[i].raised /\ \A j \in 1..(i - 1) : ~turns[j].raised]
    ELSE Ok([recently_added |->
                Cardinality({i \in 1..Len(turns) : turns[i].val.recently_added}),
             recently_checked |->
                Cardinality({i \in 1..Len(turns) : turns[i].val.bucket = "recently_checked"}),
             never_checked |->
                Cardinality({i \in 1..Len(turns) : turns[i].val.bucket = "never_checked"}),
             outdated_checks |->
                Cardinality({i \in 1..Len(turns) : turns[i].val.bucket = "outdated"})])

\* sum(1 for r in resources if r.get(field, "").upper() == "TRUE")
CountTrue(resources, field) ==
    IF \E i \in 1..Len(resources) : UpperIsTrue(resources[i], field).raised
    THEN Raise("AttributeError")
    ELSE Ok(Cardinality({i \in 1..Len(resources) : UpperIsTrue(resources[i], field).val}))

Column(resources, field, default) ==
    [i \in 1..Len(resources) |-> Get(resources[i], field, default)]

\* len([a for a in authors if a != "Unknown"])
UniqueAuthors(authors) == Cardinality({i \in 1..Len(authors) : authors[i][1] # Unknown})

\* the statements of high_level_audit in order, given the outcome of the
\* active count, of the date loop and of the removed count
Statistics(resources, active, dates, removed, authors) ==
    IF active.raised THEN active
    ELSE IF dates.raised THEN dates
    ELSE IF removed.raised THEN removed
    ELSE Ok([total_resources |-> Len(resources),
             active |-> active.val,
             inactive |-> Len(resources) - active.val,
             categories |-> most_common(Column(resources, "Category", Unknown)),
             sub_categories |-> most_common(Column(resources, "Sub-Category", Unknown)),
             licenses |-> most_common(Column(resources, "License", Unknown)),
             no_license |->
                Cardinality({i \in 1..Len(resources) : HasNoLicense(resources[i])}),
             unique_authors |-> UniqueAuthors(authors),
             top_authors |-> Take(authors, TopAuthors),
             recently_added |-> dates.val.recently_added,
             recently_checked |-> dates.val.recently_checked,
             never_checked |-> dates.val.never_checked,
             outdated_checks |-> dates.val.outdated_checks,
             removed_from_origin |-> removed.val])

high_level_audit(resources, nowv) ==
    Statistics(resources,
               CountTrue(resources, "Active"),
               ListLengths([i \in 1..Len(resources) |-> DateAnalysis(resources[i], nowv)]),
               CountTrue(resources, "Removed From Origin"),
               most_common(Column(resources, "Author Name", Unknown)))

\* ------------------------------------------------------------------------
\* scoped_audit
\* ------------------------------------------------------------------------
\* the filters in the order the code applies them
FilterOrder ==
    <<"category", "sub_category", "author", "license_filter",
      "inactive_only", "no_license_only", "recent_days">>

\* the field each string filter compares
FilterField(name) ==
    CASE name = "category" -> "Category"
      [] name = "sub_category" -> "Sub-Category"
      [] name = "author" -> "Author Name"
      [] name = "license_filter" -> "License"

\* FilterActive with "is not None" as the test of the category filter
FilterActive_CategoryNotNone(name, c) ==
    CASE name = "category" -> ~IsNone(c.category)
      [] name \in {"sub_category", "author", "license_filter"} -> Truthy(c[name])
      [] name \in {"inactive_only", "no_license_only"} -> c[name]
      [] name = "recent_days" -> ~IsNone(c.recent_days)

\* the condition of the filter's if statement
FilterActive(name, c) ==
    CASE name \in {"category", "sub_category", "author", "license_filter"} ->
            Truthy(c[name])
      [] name \in {"inactive_only", "no_license_only"} -> c[name]
      [] name = "recent_days" -> ~IsNone(c.recent_days)

\* the elements of seq at the positions where keep holds, in order
RECURSIVE Kept(_, _)
Kept(seq, keep) ==
    IF seq = <<>> THEN <<>>
    ELSE IF keep[Len(seq)]
    THEN Append(Kept(SubSeq(seq, 1, Len(seq) - 1), keep), seq[Len(seq)])
    ELSE Kept(SubSeq(seq, 1, Len(seq) - 1), keep)

\* a list comprehension over filtered whose condition has the outcomes
\* tests: the first exception, or the elements whose test holds
Comprehension(filtered, tests) ==
    IF \E i \in 1..Len(tests) : tests[i].raised
    THEN tests[CHOOSE i \in 1..Len(tests) :
                    tests[i].raised /\ \A j \in 1..(i - 1) : ~tests[j].raised]
    ELSE Ok(Kept(filtered, [i \in 1..Len(tests) |-> tests[i].val]))

\* a.lower() == b.lower() on the outcomes of the two lower() calls
LowerEqual(a, b) ==
    IF a.raised THEN a ELSE IF b.raised THEN b ELSE Ok(a.val = b.val)

\* FilterByField that compares with value instead of value.lower()
FilterByField_ValueNotLowered(filtered, field, value) ==
    Comprehension(filtered,
        [i \in 1..Len(filtered) |->
            LowerEqual(lower(Get(filtered[i], field, EmptyStr)), Ok(value))])

\* [r for r in filtered if r.get(field, "").lower() == value.lower()]
FilterByField(filtered, field, value) ==
    Comprehension(filtered,
        [i \in 1..Len(filtered) |->
            LowerEqual(lower(Get(filtered[i], field, EmptyStr)), lower(value))])

Negated(o) == IF o.raised THEN o ELSE Ok(~o.val)

\* [r for r in filtered if r.get("Active", "").upper() != "TRUE"]
FilterInactive(filtered) ==
    Comprehension(filtered,
        [i \in 1..Len(filtered) |-> Negated(UpperIsTrue(filtered[i], "Active"))])

FilterNoLicense(filtered) ==
    Comprehension(filtered, [i \in 1..Len(filtered) |-> Ok(HasNoLicense(filtered[i]))])

\* parse_date(..) and parse_date(..) >= cutoff_date
IsRecent(date_added, cutoff) ==
    IF date_added.raised THEN date_added
    ELSE Ok(~IsNone(date_added.val) /\ AtOrAfterCutoff(date_added.val, cutoff))

\* the comprehension of the recent_days filter for the cutoff computed
KeepRecent(filtered, cutoff) ==
    IF cutoff.raised THEN cutoff
    ELSE Comprehension(filtered,
            [i \in 1..Len(filtered) |->
                IsRecent(parse_date(Get(filtered[i], "Date Added", EmptyStr)), cutoff.val)])

\* cutoff_date = now - timedelta(days=recent_days), then
\* [r for r in filtered if parse_date(..) and parse_date(..) >= cutoff_date]
FilterRecent(filtered, days, nowv) == KeepRecent(filtered, MinusDays(nowv, days))

\* ApplyFilter in which the author filter is never applied
ApplyFilter_AuthorNotApplied(name, filtered, c, nowv) ==
    IF ~FilterActive(name, c) \/ name = "author" THEN Ok(filtered)
    ELSE CASE name \in {"category", "sub_category", "license_filter"} ->
                FilterByField(filtered, FilterField(name), c[name])
           [] name = "inactive_only" -> FilterInactive(filtered)
           [] name = "no_license_only" -> FilterNoLicense(filtered)
           [] name = "recent_days" -> FilterRecent(filtered, c.recent_days.val, nowv)

\* one "if <filter>: filtered = [...]" statement
ApplyFilter(name, filtered, c, nowv) ==
    IF ~FilterActive(name, c) THEN Ok(filtered)
    ELSE CASE name \in {"category", "sub_category", "author", "license_filter"} ->
                FilterByField(filtered, FilterField(name), c[name])
           [] name = "inactive_only" -> FilterInactive(filtered)
           [] name = "no_license_only" -> FilterNoLicense(filtered)
           [] name = "recent_days" -> FilterRecent(filtered, c.recent_days.val, nowv)

\* the filter statements of order from position k on, applied to filtered
RECURSIVE ApplyFilters(_, _, _, _, _)
\* the statements after statement k, whose outcome is step
FiltersAfter(step, order, k, c, nowv) ==
    IF step.raised THEN step ELSE ApplyFilters(order, k + 1, step.val, c, nowv)

ApplyFilters(order, k, filtered, c, nowv) ==
    IF k > Len(order) THEN Ok(filtered)
    ELSE FiltersAfter(ApplyFilter(order[k], filtered, c, nowv), order, k, c, nowv)

\* (datetime.now() - last_checked).days if last_checked else None
DaysSinceCheck(last_checked, later) ==
    IF IsNone(last_checked) THEN None ELSE PyInt(DaysBetween(later, last_checked))

\* the entry appended to result["resources"] for one matched resource whose
\* Last Checked parse_date turned into last_checked
DetailOf(resource, last_checked, later) ==
    IF last_checked.raised THEN last_checked
    ELSE Ok([id |-> Get(resource, "ID", EmptyStr),
             name |-> Get(resource, "Display Name", EmptyStr),
             category |-> Get(resource, "Category", EmptyStr),
             sub_category |-> Get(resource, "Sub-Category", EmptyStr),
             active |-> Get(resource, "Active", EmptyStr),
             license |-> Get(resource, "License", EmptyStr),
             author |-> Get(resource, "Author Name", EmptyStr),
             primary_link |-> Get(resource, "Primary Link", EmptyStr),
             last_checked |-> Get(resource, "Last Checked", EmptyStr),
             days_since_check |-> DaysSinceCheck(last_checked.val, later),
             removed_from_origin |-> Get(resource, "Removed From Origin", EmptyStr)])

\* one turn of the loop over the matched resources; later is the value
\* datetime.now() returns in the loop
Detail(resource, later) ==
    DetailOf(resource, parse_date(Get(resource, "Last Checked", EmptyStr)), later)

\* the result dictionary after the loop whose turns have the outcomes details
Listing(c, filtered, details) ==
    IF \E i \in 1..Len(details) : details[i].raised
    THEN details[CHOOSE i \in 1..Len(details) :
                    details[i].raised /\ \A j \in 1..(i - 1) : ~details[j].raised]
    ELSE Ok([filter_criteria |-> c,
             matched_count |-> Len(filtered),
             resources |-> [i \in 1..Len(details) |-> details[i].val]])

\* the statements of scoped_audit after the filters, whose outcome is filtered
Analyze(c, filtered, later) ==
    IF filtered.raised THEN filtered
    ELSE Listing(c, filtered.val,
                 [i \in 1..Len(filtered.val) |-> Detail(filtered.val[i], later)])

scoped_audit(resources, c, nowv, later) ==
    Analyze(c, ApplyFilters(FilterOrder, 1, resources, c, nowv), later)

\* ------------------------------------------------------------------------
\* State
\* ------------------------------------------------------------------------
VARIABLES
    entry,      \* "main": the script is run; otherwise the function called
    csv_file,   \* THE_RESOURCES_TABLE.csv: [exists, rows]
    args,       \* the parsed command line, or the arguments of the call
    now,        \* the clock value datetime.now() returns to the audit
    pc,         \* position of the run
    resources,  \* the rows load_resources returned
    result,     \* outcome of the audit (or parse_date) call
    stdout,     \* what has been printed
    exit_code   \* exit status of the process, NotExited while it runs

vars == <<entry, csv_file, args, now, pc, resources, result, stdout, exit_code>>

NotExited == -1

NoResult == [raised |-> FALSE, val |-> None]

\* an uncaught exception: the interpreter prints the traceback and exits 1
Traceback(exc) == <<"Traceback", exc>>

\* ------------------------------------------------------------------------
\* main, run as a script
\* ------------------------------------------------------------------------
\* has_scoped_filters = any([...])
has_scoped_filters(a) ==
    \/ Truthy(a.category)
    \/ Truthy(a.sub_category)
    \/ Truthy(a.author)
    \/ Truthy(a.license_filter)
    \/ a.inactive
    \/ a.no_license
    \/ Truthy(a.recent_days)

\* the keyword arguments main passes to scoped_audit
Criteria(a) ==
    [category |-> a.category,
     sub_category |-> a.sub_category,
     author |-> a.author,
     license_filter |-> a.license_filter,
     inactive_only |-> a.inactive,
     no_license_only |-> a.no_license,
     recent_days |-> a.recent_days]

load_resources ==
    /\ pc = "load"
    /\ IF ~csv_file.exists
       THEN /\ stdout' = Append(stdout, <<"Error: THE_RESOURCES_TABLE.csv not found">>)
            /\ exit_code' = 1
            /\ pc' = "exited"
            /\ UNCHANGED resources
       ELSE /\ resources' = csv_file.rows
            /\ pc' = "audit"
            /\ UNCHANGED <<stdout, exit_code>>
    /\ UNCHANGED <<entry, csv_file, args, now, result>>

\* the audit raised: nothing in main catches it
Crash(outcome) ==
    /\ stdout' = Append(stdout, Traceback(outcome.exc))
    /\ exit_code' = 1
    /\ pc' = "exited"

main_high_level ==
    /\ pc = "audit"
    /\ ~has_scoped_filters(args)
    /\ result' = high_level_audit(resources, now)
    /\ IF result'.raised
       THEN Crash(result')
       ELSE pc' = "report" /\ UNCHANGED <<stdout, exit_code>>
    /\ UNCHANGED <<entry, csv_file, args, now, resources>>

\* the clock values the model reads
Clocks ==
    {DateTime(2024, 3, 31, 12, 0, 0, 0), DateTime(2024, 3, 31, 12, 0, 0, 500000)}

main_scoped ==
    /\ pc = "audit"
    /\ has_scoped_filters(args)
    /\ \E later \in Clocks :
        /\ DateTimeGE(later, now)
        /\ result' = scoped_audit(resources, Criteria(args), now, later)
    /\ IF result'.raised
       THEN Crash(result')
       ELSE pc' = "report" /\ UNCHANGED <<stdout, exit_code>>
    /\ UNCHANGED <<entry, csv_file, args, now, resources>>

\* the lines of print_high_level_report that carry a number
HighLevelLines(d) ==
    <<<<"Unique Authors", d.unique_authors>>,
      <<"CATEGORIES", Len(d.categories)>>,
      <<"SUB-CATEGORIES", Len(d.sub_categories)>>,
      <<"Resources without license", d.no_license>>,
      <<"Recently added (last 30 days)", d.recently_added>>,
      <<"Recently checked (last 7 days)", d.recently_checked>>,
      <<"Never checked", d.never_checked>>,
      <<"Outdated checks (>30 days)", d.outdated_checks>>,
      <<"Removed from origin", d.removed_from_origin>>>>

print_high_level_report ==
    /\ pc = "report"
    /\ ~has_scoped_filters(args)
    /\ ~args.json
    /\ LET d == result.val
           head == <<<<"HIGH-LEVEL AUDIT REPORT">>,
                     <<"Total Resources", d.total_resources>>>>
       IN  IF d.total_resources = 0
           THEN \* active / total_resources * 100 divides by zero
                /\ stdout' = (stdout \o head) \o <<Traceback("ZeroDivisionError")>>
                /\ exit_code' = 1
           ELSE /\ stdout' = ((stdout \o head)
                                \o <<<<"Active", d.active>>, <<"Inactive", d.inactive>>>>)
                                \o HighLevelLines(d)
                /\ exit_code' = 0
    /\ pc' = "exited"
    /\ UNCHANGED <<entry, csv_file, args, now, resources, result>>

print_scoped_report ==
    /\ pc = "report"
    /\ has_scoped_filters(args)
    /\ ~args.json
    /\ LET d == result.val
           listing == [i \in 1..Len(d.resources) |->
                          <<"RESOURCE", i, d.resources[i].active = TRUE_STR,
                            d.resources[i].name, d.resources[i].days_since_check>>]
       IN  stdout' = ((stdout \o <<<<"SCOPED AUDIT REPORT">>,
                                   <<"MATCHED", d.matched_count>>>>)
                        \o (IF d.matched_count > 0 THEN listing ELSE <<>>))
    /\ exit_code' = 0
    /\ pc' = "exited"
    /\ UNCHANGED <<entry, csv_file, args, now, resources, result>>

\* print(json.dumps(data, indent=2)) of either report
print_json ==
    /\ pc = "report"
    /\ args.json
    /\ stdout' = Append(stdout, <<"json", result.val>>)
    /\ exit_code' = 0
    /\ pc' = "exited"
    /\ UNCHANGED <<entry, csv_file, args, now, resources, result>>

Next ==
    \/ load_resources
    \/ main_high_level
    \/ main_scoped
    \/ print_high_level_report
    \/ print_scoped_report
    \/ print_json

\* ------------------------------------------------------------------------
\* Inputs: field values, rows and tables
\* ------------------------------------------------------------------------
\* a number below 100 as two digits, and a year as four
TwoDigits(n) == <<DigitChars[(n \div 10) + 1], DigitChars[(n % 10) + 1]>>

FourDigits(n) == TwoDigits(n \div 100) \o TwoDigits(n % 100)

\* the timestamp text "YYYY-MM-DD:HH-MM-SS" the table's maintainers write
Stamp(y, mo, d, h, mi, sec) ==
    PyStr(FourDigits(y) \o <<"-">> \o TwoDigits(mo) \o <<"-">> \o TwoDigits(d)
          \o <<":">> \o TwoDigits(h) \o <<"-">> \o TwoDigits(mi)
          \o <<"-">> \o TwoDigits(sec))

Hooks == PyStr(<<"H", "o", "o", "k", "s">>)

hooks == PyStr(<<"h", "o", "o", "k", "s">>)

Tools == PyStr(<<"T", "o", "o", "l", "s">>)

General == PyStr(<<"G", "e", "n", "e", "r", "a", "l">>)

Misc == PyStr(<<"M", "i", "s", "c">>)

Bob == PyStr(<<"B", "o", "b">>)

BOB == PyStr(<<"B", "O", "B">>)

Al == PyStr(<<"A", "l">>)

MIT == PyStr(<<"M", "I", "T">>)

mit == PyStr(<<"m", "i", "t">>)

GPL == PyStr(<<"G", "P", "L">>)

not_found == PyStr(<<"n", "o", "t", "_", "f", "o", "u", "n", "d">>)

true_str == PyStr(<<"t", "r", "u", "e">>)

FALSE_STR == PyStr(<<"F", "A", "L", "S", "E">>)

Blank == PyStr(<<" ", " ">>)

\* timestamps around the clock values of Clocks (2024-03-31 12:00:00)
AnHourAgo == Stamp(2024, 3, 31, 11, 0, 0)

Days7Ago == Stamp(2024, 3, 24, 12, 0, 0)

Days8Ago == Stamp(2024, 3, 23, 11, 0, 0)

Days30Ago == Stamp(2024, 3, 1, 12, 0, 0)

Days30AndAnHourAgo == Stamp(2024, 3, 1, 11, 0, 0)

Days31Ago == Stamp(2024, 2, 29, 11, 0, 0)

Days40Ago == Stamp(2024, 2, 20, 12, 0, 0)

InTwoDays == Stamp(2024, 4, 2, 0, 0, 0)

DateOnly == PyStr(<<"2", "0", "2", "4", "-", "0", "3", "-", "3", "1">>)

\* a complete, active, licensed, recently added and checked row
Base ==
    ("ID" :> PyStr(<<"1">>)) @@ ("Display Name" :> PyStr(<<"n">>))
    @@ ("Category" :> Hooks) @@ ("Sub-Category" :> General)
    @@ ("Primary Link" :> PyStr(<<"l">>)) @@ ("Author Name" :> Bob)
    @@ ("Active" :> TRUE_STR) @@ ("Date Added" :> AnHourAgo)
    @@ ("Last Checked" :> AnHourAgo) @@ ("License" :> MIT)
    @@ ("Removed From Origin" :> FALSE_STR)

\* the row of a table whose header has no column k
Without(r, k) == [f \in (DOMAIN r) \ {k} |-> r[f]]

\* the row that differs from Base in the field f
With(f, v) == [Base EXCEPT ![f] = v]

\* the tables of at most MaxRecords rows taken from pool
RECURSIVE SeqsUpTo(_, _)
SeqsUpTo(pool, n) ==
    IF n = 0 THEN {<<>>}
    ELSE LET shorter == SeqsUpTo(pool, n - 1)
         IN  shorter \cup {Append(t, r) : t \in {u \in shorter : Len(u) = n - 1}, r \in pool}

Tables(pool) == SeqsUpTo(pool, MaxRecords)

\* ------------------------------------------------------------------------
\* The script run: Spec
\* ------------------------------------------------------------------------
\* rows of the tables the script is run on: complete rows, a row whose
\* fields differ from the filters' values, and a short row, for which
\* csv.DictReader stores None in the columns it does not reach
MainPool ==
    {Base,
     [Base EXCEPT !["Category"] = Tools, !["Active"] = FALSE_STR,
                  !["License"] = NOT_FOUND, !["Date Added"] = Days31Ago,
                  !["Last Checked"] = Days40Ago],
     [Base EXCEPT !["Active"] = None, !["Date Added"] = None,
                  !["Last Checked"] = None, !["License"] = None,
                  !["Removed From Origin"] = None]}

\* a --recent-days value for which now - timedelta(days=N) is before year 1
HugeDays == MaxOrdinal

NoFlags ==
    [category |-> None, sub_category |-> None, author |-> None,
     license_filter |-> None, inactive |-> FALSE, no_license |-> FALSE,
     recent_days |-> None, json |-> FALSE]

\* the command lines with one filter flag
OneFlag ==
    {[NoFlags EXCEPT !.category = v] : v \in {EmptyStr, hooks}}
    \cup {[NoFlags EXCEPT !.sub_category = General],
          [NoFlags EXCEPT !.author = BOB],
          [NoFlags EXCEPT !.license_filter = mit],
          [NoFlags EXCEPT !.inactive = TRUE],
          [NoFlags EXCEPT !.no_license = TRUE]}
    \cup {[NoFlags EXCEPT !.recent_days = PyInt(n)] : n \in {0, 30, HugeDays}}

\* the flags of b added to the command line a
Merge(a, b) ==
    [f \in DOMAIN a |-> IF b[f] = NoFlags[f] THEN a[f] ELSE b[f]]

\* the command lines with at most two filter flags, with and without --json
MainArgs ==
    LET filters == {NoFlags} \cup OneFlag \cup {Merge(a, b) : a \in OneFlag, b \in OneFlag}
    IN  {[a EXCEPT !.json = j] : a \in filters, j \in BOOLEAN}

Init ==
    /\ entry = "main"
    /\ csv_file \in {[exists |-> FALSE, rows |-> <<>>]}
                    \cup {[exists |-> TRUE, rows |-> t] : t \in Tables(MainPool)}
    /\ args \in MainArgs
    /\ now \in Clocks
    /\ pc = "load"
    /\ resources = <<>>
    /\ result = NoResult
    /\ stdout = <<>>
    /\ exit_code = NotExited

Spec == Init /\ [][Next]_vars

\* ------------------------------------------------------------------------
\* The functions called directly, as a test with a fixed clock calls them
\* ------------------------------------------------------------------------
Return(outcome) ==
    /\ result' = outcome
    /\ pc' = IF outcome.raised THEN "raised" ELSE "returned"
    /\ UNCHANGED <<entry, csv_file, args, now, resources, stdout, exit_code>>

call_parse_date ==
    /\ pc = "call"
    /\ entry = "parse_date"
    /\ Return(parse_date(args.date_str))

call_high_level_audit ==
    /\ pc = "call"
    /\ entry = "high_level_audit"
    /\ Return(high_level_audit(resources, now))

call_scoped_audit ==
    /\ pc = "call"
    /\ entry = "scoped_audit"
    /\ \E later \in Clocks :
        /\ DateTimeGE(later, now)
        /\ Return(scoped_audit(resources, args, now, later))

NextCall ==
    \/ call_parse_date
    \/ call_high_level_audit
    \/ call_scoped_audit

NoFile == [exists |-> FALSE, rows |-> <<>>]

NoArgs == [none |-> TRUE]

\* scoped_audit's defaults
NoFilter == Criteria(NoFlags)

\* the state before a call of fn(table, a) at clock value t
InitCall(fn, tables, argset, clocks) ==
    /\ entry = fn
    /\ csv_file = NoFile
    /\ resources \in tables
    /\ args \in argset
    /\ now \in clocks
    /\ pc = "call"
    /\ result = NoResult
    /\ stdout = <<>>
    /\ exit_code = NotExited

LaterClock == DateTime(2024, 3, 31, 12, 0, 0, 500000)

\* ---- parse_date on assembled timestamp texts ----
YearTexts == {<<"2", "0", "2", "4">>, <<"2", "0", "2", "3">>,
              <<"0", "0", "0", "0">>, <<"2", "4">>}

MonthTexts == {<<"0", "2">>, <<"2">>, <<"1", "3">>, <<"0", "0">>}

DayTexts == {<<"2", "9">>, <<"3", "0">>, <<" ", "5">>, <<"5">>, <<"0", "0">>}

HourTexts == {<<"2", "3">>, <<"2", "4">>, <<"7">>}

MinuteTexts == {<<"5", "9">>, <<"6", "0">>}

SecondTexts == {<<"5", "9">>, <<"6", "0">>, <<"6">>}

MiddleTexts == {<<":">>, <<" ">>}

SuffixTexts == {<<>>, <<" ">>, <<"x">>}

\* the text assembled from the six fields, the separator between date and
\* time, and what follows the seconds
Assemble(p) ==
    PyStr(p.Y \o <<"-">> \o p.m \o <<"-">> \o p.d \o p.middle
          \o p.H \o <<"-">> \o p.M \o <<"-">> \o p.S \o p.suffix)

Probes ==
    {[date_str |-> Assemble(p), parts |-> p] :
        p \in [Y : YearTexts, m : MonthTexts, d : DayTexts, H : HourTexts,
               M : MinuteTexts, S : SecondTexts, middle : MiddleTexts,
               suffix : SuffixTexts]}

\* texts that are not assembled from fields
OtherDateTexts ==
    {[date_str |-> v, parts |-> NoArgs] : v \in {None, EmptyStr, Blank, DateOnly}}

\* ---- the audits on tables whose rows differ from Base in one text field ----
FilterPool ==
    {Base,
     With("Category", hooks), With("Category", Tools), With("Category", None),
     With("Sub-Category", Misc),
     With("Author Name", Al),
     With("License", mit), With("License", EmptyStr), With("License", NOT_FOUND),
     With("License", not_found), With("License", None),
     With("Active", true_str), With("Active", FALSE_STR), With("Active", None),
     With("Date Added", Days31Ago),
     [Base EXCEPT !["Category"] = Tools, !["License"] = None],
     Without(Without(Without(Base, "Category"), "License"), "Active")}

\* the filter arguments: no filter, an empty category, and one, two or
\* three filters whose values match Base up to letter case
OneFilter ==
    {[NoFilter EXCEPT !.category = hooks],
     [NoFilter EXCEPT !.sub_category = General],
     [NoFilter EXCEPT !.author = BOB],
     [NoFilter EXCEPT !.license_filter = mit],
     [NoFilter EXCEPT !.inactive_only = TRUE],
     [NoFilter EXCEPT !.no_license_only = TRUE],
     [NoFilter EXCEPT !.recent_days = PyInt(30)]}

MergeFilter(a, b) ==
    [f \in DOMAIN a |-> IF b[f] = NoFilter[f] THEN a[f] ELSE b[f]]

FilterArgs ==
    {NoFilter, [NoFilter EXCEPT !.category = EmptyStr]}
    \cup {MergeFilter(MergeFilter(a, b), c) :
            a \in OneFilter, b \in OneFilter, c \in OneFilter}

InitFilter ==
    \/ InitCall("scoped_audit", Tables(FilterPool), FilterArgs, {LaterClock})
    \/ InitCall("high_level_audit", Tables(FilterPool), {NoArgs}, {LaterClock})
    \/ InitCall("parse_date", {<<>>}, OtherDateTexts, {LaterClock})

SpecFilter == InitFilter /\ [][NextCall]_vars

\* ---- the audits on tables whose rows differ from Base in one timestamp ----
DatePool ==
    {Base}
    \cup {With("Date Added", v) :
            v \in {Days30Ago, Days30AndAnHourAgo, Days31Ago, InTwoDays,
                   DateOnly, EmptyStr, None}}
    \cup {With("Last Checked", v) :
            v \in {Days7Ago, Days8Ago, Days30Ago, Days40Ago, InTwoDays,
                   DateOnly, EmptyStr, Blank, None}}

DateArgs ==
    {[NoFilter EXCEPT !.recent_days = PyInt(n)] : n \in {0, 30, 31, HugeDays}}

InitDates ==
    \/ InitCall("scoped_audit", Tables(DatePool), DateArgs, Clocks)
    \/ InitCall("high_level_audit", Tables(DatePool), {NoArgs}, Clocks)
    \/ InitCall("parse_date", {<<>>}, Probes \cup OtherDateTexts, {LaterClock})

SpecDates == InitDates /\ [][NextCall]_vars

\* ---- the audits on tables whose rows differ in Active or License ----
CountPool ==
    {Base,
     With("Active", true_str), With("Active", FALSE_STR), With("Active", EmptyStr),
     With("Active", None), Without(Base, "Active"),
     With("License", EmptyStr), With("License", NOT_FOUND),
     With("License", not_found), With("License", None), Without(Base, "License")}

CountArgs ==
    {[NoFilter EXCEPT !.inactive_only = TRUE],
     [NoFilter EXCEPT !.no_license_only = TRUE]}

InitCounts ==
    \/ InitCall("high_level_audit", SeqsUpTo(CountPool, MaxCounted), {NoArgs},
                {LaterClock})
    \/ InitCall("scoped_audit", SeqsUpTo(CountPool, MaxCounted - 1), CountArgs,
                {LaterClock})
    \/ InitCall("parse_date", {<<>>}, OtherDateTexts, {LaterClock})

SpecCounts == InitCounts /\ [][NextCall]_vars

\* ------------------------------------------------------------------------
\* Vocabulary of the properties
\* ------------------------------------------------------------------------
\* the text of a field, empty when the row lacks the field
FieldText(r, f) == IF f \in DOMAIN r /\ IsStr(r[f]) THEN r[f].val ELSE <<>>

\* two characters that are the same letter in either case
SameLetter(a, b) ==
    \/ a = b
    \/ \E k \in 1..26 : {a, b} = {UpperLetters[k], LowerLetters[k]}

SameIgnoringCase(s, t) ==
    /\ Len(s) = Len(t)
    /\ \A i \in 1..Len(s) : SameLetter(s[i], t[i])

\* a string argument that selects: given and not empty
Given(v) == IsStr(v) /\ v.val # <<>>

\* the filters a call of scoped_audit asks for
FiltersOn(c) ==
    {f \in {"category", "sub_category", "author", "license_filter"} : Given(c[f])}
    \cup {f \in {"inactive_only", "no_license_only"} : c[f]}
    \cup {f \in {"recent_days"} : c[f] # None}

FieldOf ==
    ("category" :> "Category") @@ ("sub_category" :> "Sub-Category")
    @@ ("author" :> "Author Name") @@ ("license_filter" :> "License")

\* the time t is no more than days days before nowv
NoOlderThan(t, days, nowv) ==
    /\ ~IsNone(t)
    /\ \/ Ordinal(nowv) - Ordinal(t) < days
       \/ Ordinal(nowv) - Ordinal(t) = days /\ ~TimeOfDayLess(t, nowv)

\* the row was added no more than days days before nowv
AddedWithin(r, days, nowv) ==
    NoOlderThan(parse_date(Get(r, "Date Added", EmptyStr)).val, days, nowv)

\* the row satisfies the predicate of the filter f
SatisfiesFilter(r, f, c, nowv) ==
    CASE f \in DOMAIN FieldOf ->
            /\ FieldOf[f] \in DOMAIN r
            /\ IsStr(r[FieldOf[f]])
            /\ SameIgnoringCase(r[FieldOf[f]].val, c[f].val)
      [] f = "inactive_only" -> ~SameIgnoringCase(FieldText(r, "Active"), TRUE_STR.val)
      [] f = "no_license_only" -> FieldText(r, "License") \in {<<>>, NOT_FOUND.val}
      [] f = "recent_days" -> AddedWithin(r, c.recent_days.val, nowv)

RECURSIVE Perms(_)
Perms(S) ==
    IF S = {} THEN {<<>>}
    ELSE UNION {{<<x>> \o q : q \in Perms(S \ {x})} : x \in S}

\* a listed entry without the age of its last check, which depends on
\* when the clock is read
WithoutAge(e) == [e EXCEPT !.days_since_check = None]

ScopedReturned == entry = "scoped_audit" /\ pc = "returned"

HighLevelReturned == entry = "high_level_audit" /\ pc = "returned"

\* ------------------------------------------------------------------------
\* Properties
\* ------------------------------------------------------------------------
\* the rows of table that satisfy the predicate of every filter of c
Satisfying(table, c, nowv) ==
    LET Sat(r) == \A f \in FiltersOn(c) : SatisfiesFilter(r, f, c, nowv)
    IN  SelectSeq(table, Sat)

\* the listing has one entry per expected row, in order, with its values
ListsExactly(listed, expected) ==
    /\ Len(listed) = Len(expected)
    /\ \A i \in 1..Len(listed) :
            WithoutAge(listed[i]) = WithoutAge(Detail(expected[i], now).val)

SameUnlessRaised(outcome, expected) == ~outcome.raised => outcome.val = expected

C3_ListedMatchIgnoringCase ==
    ScopedReturned =>
        \A f \in FiltersOn(args) \cap {"category", "sub_category", "author", "license_filter"} :
            \A i \in 1..Len(result.val.resources) :
                LET e == result.val.resources[i]
                    shown == CASE f = "category" -> e.category
                               [] f = "sub_category" -> e.sub_category
                               [] f = "author" -> e.author
                               [] f = "license_filter" -> e.license
                IN  IsStr(shown) /\ SameIgnoringCase(shown.val, args[f].val)

\* an author filter kept the row whose author differs only by case and
\* dropped the row of another author
C3_Witness ==
    /\ ScopedReturned
    /\ args.author = BOB
    /\ Len(resources) = 2
    /\ Get(resources[1], "Author Name", None) = Al
    /\ result.val.matched_count = 1
    /\ result.val.resources[1].author = Bob

\* C4 (as stated): the process ends with a non-zero exit code only when the
\* input file is missing.
C4_NonZeroExitOnlyWhenFileMissing ==
    (pc = "exited" /\ exit_code # 0) => ~csv_file.exists

\* the timestamp text was assembled from fields that denote a date and a
\* time of day in the format, each number with or without its leading zero
NumberTexts(lo, hi) ==
    {TwoDigits(n) : n \in lo..hi} \cup {<<DigitChars[n + 1]>> : n \in {k \in lo..hi : k < 10}}

YearOf(text) ==
    (1000 * DigitVal(text[1])) + (100 * DigitVal(text[2]))
    + (10 * DigitVal(text[3])) + DigitVal(text[4])

WellFormedParts(p) ==
    /\ Len(p.Y) = 4
    /\ \A i \in 1..4 : IsDigit(p.Y[i])
    /\ YearOf(p.Y) >= 1
    /\ \E mo \in 1..12 :
        /\ p.m \in NumberTexts(mo, mo)
        /\ p.d \in NumberTexts(1, DaysInMonth(YearOf(p.Y), mo))
                    \cup {<<" ", DigitChars[n + 1]>> : n \in 1..9}
    /\ p.H \in NumberTexts(0, 23)
    /\ p.M \in NumberTexts(0, 59)
    /\ p.S \in NumberTexts(0, 59)
    /\ p.middle = <<":">>
    /\ p.suffix = <<>>

Malformed(a) == a.parts = NoArgs \/ ~WellFormedParts(a.parts)

\* the timestamps of the rows that are written in the format
GoodStamps ==
    {AnHourAgo, Days7Ago, Days8Ago, Days30Ago, Days30AndAnHourAgo, Days31Ago,
     Days40Ago, InTwoDays}

UncheckedRows ==
    {i \in 1..Len(resources) : Get(resources[i], "Last Checked", EmptyStr) \notin GoodStamps}

\* C5: parse_date never raises and returns None for every empty, blank or
\* malformed text; high_level_audit counts every row whose Last Checked is
\* empty or malformed in never_checked and in no other bucket.
C5_MalformedDatesAreNeverChecked ==
    /\ entry = "parse_date" =>
        /\ pc # "raised"
        /\ (pc = "returned" /\ Malformed(args)) => result.val = None
    /\ entry = "high_level_audit" =>
        /\ pc # "raised"
        /\ pc = "returned" =>
            /\ result.val.never_checked = Cardinality(UncheckedRows)
            /\ result.val.recently_checked + result.val.outdated_checks
                    <= Len(resources) - Cardinality(UncheckedRows)

\* two rows, one with a date-only text and one with an empty Last Checked
C5_Witness ==
    /\ HighLevelReturned
    /\ Len(resources) = 2
    /\ Get(resources[1], "Last Checked", None) = DateOnly
    /\ Get(resources[2], "Last Checked", None) = EmptyStr
    /\ result.val.never_checked = 2
    /\ result.val.recently_checked = 0
    /\ result.val.outdated_checks = 0

\* C6: the no_license total of high_level_audit is the number of rows whose
\* License is empty, missing or exactly "NOT_FOUND".
C6_NoLicenseCount ==
    HighLevelReturned =>
        result.val.no_license =
            Cardinality({i \in 1..Len(resources) :
                FieldText(resources[i], "License") \in {<<>>, NOT_FOUND.val}})

\* a NOT_FOUND row, a row without license text and a licensed row
C6_Witness ==
    /\ HighLevelReturned
    /\ Len(resources) = 3
    /\ Get(resources[1], "License", None) = NOT_FOUND
    /\ Get(resources[2], "License", None) = EmptyStr
    /\ Get(resources[3], "License", None) = not_found
    /\ result.val.no_license = 2

\* C7: scoped_audit with no active filter returns, with matched_count the
\* number of rows and one entry per row, in order, carrying the row's values.
C7_NoFilterReturnsEveryRow ==
    (entry = "scoped_audit" /\ FiltersOn(args) = {} /\ pc # "call") =>
        /\ pc = "returned"
        /\ result.val.matched_count = Len(resources)
        /\ Len(result.val.resources) = Len(resources)
        /\ \A i \in 1..Len(resources) :
            LET e == result.val.resources[i]
                r == resources[i]
            IN  /\ e.id = Get(r, "ID", EmptyStr)
                /\ e.name = Get(r, "Display Name", EmptyStr)
                /\ e.category = Get(r, "Category", EmptyStr)
                /\ e.sub_category = Get(r, "Sub-Category", EmptyStr)
                /\ e.active = Get(r, "Active", EmptyStr)
                /\ e.license = Get(r, "License", EmptyStr)
                /\ e.author = Get(r, "Author Name", EmptyStr)
                /\ e.primary_link = Get(r, "Primary Link", EmptyStr)
                /\ e.last_checked = Get(r, "Last Checked", EmptyStr)
                /\ e.removed_from_origin = Get(r, "Removed From Origin", EmptyStr)

\* no filter, two different rows, both listed in order
C7_Witness ==
    /\ ScopedReturned
    /\ FiltersOn(args) = {}
    /\ Len(resources) = 2
    /\ Get(resources[1], "Category", None) = Tools
    /\ Get(resources[2], "Category", None) = Hooks
    /\ result.val.matched_count = 2
    /\ result.val.resources[1].category = Tools

\* a filter flag was given on the command line
FlagSupplied(a) ==
    \/ \E f \in {"category", "sub_category", "author", "license_filter", "recent_days"} :
            a[f] # None
    \/ a.inactive
    \/ a.no_license

\* the run printed the scoped report, as text or as JSON
ScopedReportPrinted ==
    \E i \in 1..Len(stdout) :
        \/ stdout[i] = <<"SCOPED AUDIT REPORT">>
        \/ stdout[i][1] = "json" /\ "matched_count" \in DOMAIN stdout[i][2]

\* C8 (as stated): a run that completes prints the scoped report exactly
\* when a filter flag was supplied, --recent-days N for any integer N
\* included; otherwise it prints the high-level report.
C8_ScopedIffFlagSupplied ==
    (pc = "exited" /\ exit_code = 0) => (ScopedReportPrinted <=> FlagSupplied(args))

\* the rows whose Last Checked lies between seven days before the report
\* time and the report time
InLast7Days(t) ==
    /\ ~IsNone(t)
    /\ DateTimeGE(now, t)
    /\ DaysBetween(now, t) <= RecentlyCheckedDays

CheckedInLast7Days ==
    {i \in 1..Len(resources) :
        InLast7Days(parse_date(Get(resources[i], "Last Checked", EmptyStr)).val)}

\* C9 (as stated): the three check buckets count every row at most once,
\* and the rows counted in recently_checked were checked within the last
\* seven days, not later than the report time.
C9_RecentlyCheckedIsInThePast ==
    HighLevelReturned =>
        /\ result.val.never_checked + result.val.recently_checked
                + result.val.outdated_checks <= result.val.total_resources
        /\ result.val.recently_checked = Cardinality(CheckedInLast7Days)

MatchedCountIs(scoped, n) == ~scoped.raised /\ scoped.val.matched_count = n

\* C10 (as stated): recently_added of high_level_audit equals matched_count
\* of scoped_audit with recent_days = 30 on the same table and clock value.
C10_RecencyComputationsAgree ==
    HighLevelReturned =>
        MatchedCountIs(scoped_audit(resources,
                                    [NoFilter EXCEPT !.recent_days = PyInt(RecentlyAddedDays)],
                                    now, now),
                       result.val.recently_added)

====
